---------------------------- MODULE Spec2Model ----------------------------
(***************************************************************************)
(* Model of the RAG service (backend/rag-service/app): the text normalizer *)
(* and chunker (chunking.py), the prompt trimmer (rag.py), the embedding   *)
(* loop (embeddings.py), the vector store glue (vector_store.py) and the   *)
(* ingestion endpoint process_document (main.py).                          *)
(*                                                                         *)
(* A Python str is modelled as a sequence of one-character strings.        *)
(***************************************************************************)
EXTENDS Integers, Sequences, FiniteSets, TLC

NL  == "\n"
CR  == "\r"
SP  == " "
TAB == "\t"
FF  == "\f"

(* ------------------------------ bounds ------------------------------- *)

\* longest raw text given to normalize_text on its own
MaxTextLen == 5
\* longest raw text given to split_into_chunks
MaxChunkTextLen == 7
\* largest max_chunk_size / overlap argument tried
MaxChunkSize == 4
MaxOverlap == 2
\* longest prompt and largest max_chars given to trim_prompt
MaxPromptLen == 4
MaxChars == 5

NormAlphabet == {"a", SP, TAB, NL, CR, FF}
ChunkAlphabet == {"a", "b", NL}
PromptAlphabet == {"a", "b", NL}

StringsOver(alphabet, n) == UNION {[1..k -> alphabet] : k \in 0..n}

(* --------------------------- Python str ------------------------------ *)

Min(a, b) == IF a < b THEN a ELSE b
Max(a, b) == IF a > b THEN a ELSE b

\* str.isspace() of one character (the whitespace str.strip() removes)
IsSpace(c) == c \in {SP, TAB, NL, CR, FF}

\* s[start:] with Python's treatment of a negative or too large start
PySliceFrom(s, start) ==
    LET n == Len(s)
        b == IF start < 0 THEN Max(n + start, 0) ELSE Min(start, n)
    IN  SubSeq(s, b + 1, n)

\* s.lstrip()
LStrip(s) ==
    IF \A i \in 1..Len(s) : IsSpace(s[i]) THEN <<>>
    ELSE SubSeq(s, CHOOSE i \in 1..Len(s) :
                      ~IsSpace(s[i]) /\ \A j \in 1..(i - 1) : IsSpace(s[j]),
                Len(s))

\* s.rstrip()
RStrip(s) ==
    IF \A i \in 1..Len(s) : IsSpace(s[i]) THEN <<>>
    ELSE SubSeq(s, 1, CHOOSE i \in 1..Len(s) :
                         ~IsSpace(s[i]) /\ \A j \in (i + 1)..Len(s) : IsSpace(s[j]))

\* s.strip()
Strip(s) == RStrip(LStrip(s))

\* s.replace("\r", "\n")
ReplaceCR(s) == [i \in 1..Len(s) |-> IF s[i] = CR THEN NL ELSE s[i]]

\* the positions of s, in order
Positions(s) == [i \in 1..Len(s) |-> i]

\* re.sub(r"\n{3,}", "\n\n", s): of every maximal run of three or more
\* newlines the first two stay
SubNewlines(s) ==
    LET kept == SelectSeq(Positions(s),
                    LAMBDA i : ~(i >= 3 /\ s[i] = NL /\ s[i - 1] = NL
                                 /\ s[i - 2] = NL))
    IN  [k \in 1..Len(kept) |-> s[kept[k]]]

\* position of s[i] within its maximal run of blanks, from 1
BlankOffset(s, i) ==
    LET before == {j \in 1..(i - 1) : s[j] \notin {SP, TAB}}
    IN  i - (IF before = {} THEN 0
             ELSE CHOOSE j \in before : \A m \in before : m <= j)

\* mutant of SubBlanks: the pattern [ \t]{2} in place of [ \t]+
SubBlanksPairs(s) ==
    LET kept == SelectSeq(Positions(s),
                    LAMBDA i : s[i] \notin {SP, TAB}
                               \/ BlankOffset(s, i) % 2 = 1)
    IN  [k \in 1..Len(kept) |->
            IF s[kept[k]] \in {SP, TAB} /\ kept[k] < Len(s)
               /\ s[kept[k] + 1] \in {SP, TAB}
            THEN SP ELSE s[kept[k]]]

\* re.sub(r"[ \t]+", " ", s): every maximal run of blanks becomes one
\* space, that is its first character stays, as a space
SubBlanks(s) ==
    LET kept == SelectSeq(Positions(s),
                    LAMBDA i : s[i] \notin {SP, TAB} \/ i = 1
                               \/ s[i - 1] \notin {SP, TAB})
    IN  [k \in 1..Len(kept) |->
            IF s[kept[k]] \in {SP, TAB} THEN SP ELSE s[kept[k]]]

\* mutant of normalize_text: lines 11 and 12 swapped
normalize_text_late_cr(t) ==
    Strip(SubBlanks(ReplaceCR(SubNewlines(t))))

normalize_text(t) == Strip(SubBlanks(SubNewlines(ReplaceCR(t))))

\* s.split("\n\n") from position i (1-based): leftmost, non-overlapping
RECURSIVE SplitParagraphs(_, _)
SplitParagraphs(s, i) ==
    LET hits == {j \in i..(Len(s) - 1) : s[j] = NL /\ s[j + 1] = NL}
    IN  IF hits = {} THEN <<SubSeq(s, i, Len(s))>>
        ELSE LET j == CHOOSE h \in hits : \A g \in hits : h <= g
             IN  <<SubSeq(s, i, j - 1)>> \o SplitParagraphs(s, j + 2)

\* [p.strip() for p in parts if p.strip()]
RECURSIVE StripNonEmpty(_)
StripNonEmpty(parts) ==
    IF parts = <<>> THEN <<>>
    ELSE LET p == Strip(Head(parts))
         IN  (IF p # <<>> THEN <<p>> ELSE <<>>) \o StripNonEmpty(Tail(parts))

Paragraphs(normalized_text) == StripNonEmpty(SplitParagraphs(normalized_text, 1))


(* ------------------------- split_into_chunks ------------------------- *)

\* line 38: adding the paragraph would exceed the maximum size
ExceedsMax(current_chunk, para, max) ==
    Len(current_chunk) + Len(para) + 2 > max

\* mutant of OverlapSeed: the head of the buffer in place of its tail
OverlapSeedHead(current_chunk, ov) ==
    IF ov > 0 /\ Len(current_chunk) > ov
    THEN SubSeq(current_chunk, 1, ov)
    ELSE <<>>

\* lines 43-46: the buffer the next chunk starts from
OverlapSeed(current_chunk, ov) ==
    IF ov > 0 /\ Len(current_chunk) > ov
    THEN PySliceFrom(current_chunk, -ov)
    ELSE <<>>

\* mutant of AddParagraph: a single newline joins the paragraphs
AddParagraphOneNewline(current_chunk, para) ==
    IF current_chunk # <<>>
    THEN current_chunk \o <<NL>> \o para
    ELSE para

\* lines 49-52: add the paragraph to the current chunk
AddParagraph(current_chunk, para) ==
    IF current_chunk # <<>>
    THEN current_chunk \o <<NL, NL>> \o para
    ELSE para

\* lines 36-52: one iteration of the loop. st.seeds and st.seed record, next
\* to chunks and current_chunk, the overlap each buffer was started from.
LoopBody(st, para, max, ov) ==
    LET finalize == ExceedsMax(st.current_chunk, para, max)
                    /\ st.current_chunk # <<>>
        seeded == IF finalize THEN OverlapSeed(st.current_chunk, ov)
                  ELSE st.current_chunk
    IN  [chunks |-> IF finalize
                    THEN Append(st.chunks, Strip(st.current_chunk))
                    ELSE st.chunks,
         seeds |-> IF finalize THEN Append(st.seeds, st.seed) ELSE st.seeds,
         seed |-> IF finalize THEN seeded ELSE st.seed,
         current_chunk |-> AddParagraph(seeded, para)]

RECURSIVE ChunkLoop(_, _, _, _)
ChunkLoop(st, paragraphs, max, ov) ==
    IF paragraphs = <<>> THEN st
    ELSE ChunkLoop(LoopBody(st, Head(paragraphs), max, ov),
                   Tail(paragraphs), max, ov)

\* lines 54-58: add the final chunk
FinalChunk(st) ==
    IF Strip(st.current_chunk) # <<>>
    THEN [st EXCEPT !.chunks = Append(@, Strip(st.current_chunk)),
                    !.seeds = Append(@, st.seed)]
    ELSE st

\* the whole function, with the seeds kept beside the chunks
ChunkRun(t, max, ov) ==
    FinalChunk(ChunkLoop([chunks |-> <<>>, seeds |-> <<>>, seed |-> <<>>,
                          current_chunk |-> <<>>],
                         Paragraphs(normalize_text(t)), max, ov))

split_into_chunks(t, max, ov) == ChunkRun(t, max, ov).chunks

(* ---------------------------- trim_prompt ---------------------------- *)

trim_prompt(p, n) ==
    IF Len(p) <= n THEN p ELSE PySliceFrom(p, -n)

(* ------------------- ocr.py: extract_text_from_pdf ------------------- *)

\* "\n".join(parts)
RECURSIVE JoinLines(_)
JoinLines(parts) ==
    IF parts = <<>> THEN <<>>
    ELSE IF Len(parts) = 1 THEN Head(parts)
    ELSE Head(parts) \o <<NL>> \o JoinLines(Tail(parts))

\* lines 29-36: the text of every page that has some, joined by newlines
extract_text_from_pdf(pages) ==
    JoinLines(SelectSeq(pages, LAMBDA page_text : page_text # <<>>))

(* --------------------- defaults of the chunker ----------------------- *)

DefaultMaxChunkSize == 800
DefaultOverlap == 200

(* ------------------------- the stored PDFs --------------------------- *)

\* length of one paragraph of the stored PDFs
ParaLen == 400
\* dimension of the vectors the embedding model returns
EmbeddingDim == 2
\* number of ingestion requests
NumRequests == 2

Para(c) == [i \in 1..ParaLen |-> c]

ChatbotIds == {"c1", "c2"}
Filenames == {"f1.pdf", "f2.pdf"}

\* main.py line 205: object_name = f"{chatbot_id}/{filename}"
object_name(id, fname) == <<id, "/", fname>>

\* the page texts OCR gives for the PDFs uploaded to the bucket
BlankPdf == << <<FF>> >>
OneParagraphPdf == << Para("c") \o <<NL>> >>
TwoPagePdf == << Para("a") \o <<NL>>, Para("b") \o <<NL>> >>

StoredPdfs == {BlankPdf, OneParagraphPdf, TwoPagePdf}

\* the bucket: under every object name the PDFs that are uploaded to it in
\* turn; a request reads the one that is there when it runs
Bucket(name) ==
    CASE name = object_name("c1", "f1.pdf") -> {TwoPagePdf, OneParagraphPdf}
      [] name = object_name("c1", "f2.pdf") -> {OneParagraphPdf}
      [] name = object_name("c2", "f1.pdf") -> {BlankPdf}
      [] name = object_name("c2", "f2.pdf") -> {OneParagraphPdf}

\* the texts extract_text_from_pdf can return
OcrTexts == {extract_text_from_pdf(pages) : pages \in StoredPdfs}

\* split_into_chunks with its default arguments (main.py line 215), worked
\* out once for every text OCR can return
DefaultChunks ==
    [t \in OcrTexts |->
        split_into_chunks(t, DefaultMaxChunkSize, DefaultOverlap)]

Requests == 1..NumRequests

(* -------------------------- vector_store.py -------------------------- *)

COLLECTION_PREFIX == "chatbot_"

get_collection_name(id) == <<COLLECTION_PREFIX, id>>

CollectionNames == {get_collection_name(id) : id \in ChatbotIds}

\* the vector the embedding model returns for a text (embeddings.py line 26)
Embedding(t) == [d \in 1..EmbeddingDim |-> Len(t) % (d + 1)]

\* mutant of BuildPoints: enumerate(..., start=1)
BuildPointsFromOne(id, embs, chs, fname) ==
    [idx \in 1..Min(Len(embs), Len(chs)) |->
        [id |-> idx, vector |-> embs[idx],
         payload |-> [chatbot_id |-> id, filename |-> fname,
                      text |-> chs[idx]]]]

\* lines 40-52: one point per (vector, text) pair, numbered from 0
BuildPoints(id, embs, chs, fname) ==
    [idx \in 1..Min(Len(embs), Len(chs)) |->
        [id |-> idx - 1, vector |-> embs[idx],
         payload |-> [chatbot_id |-> id, filename |-> fname,
                      text |-> chs[idx]]]]

\* client.upsert: a point replaces the stored point of the same id, the
\* other stored points stay
Upserted(stored, pts) ==
    LET ids == {pts[k].id : k \in 1..Len(pts)}
    IN  [i \in (DOMAIN stored) \cup ids |->
            IF i \in ids
            THEN LET k == CHOOSE k \in 1..Len(pts) :
                            /\ pts[k].id = i
                            /\ \A m \in 1..Len(pts) : pts[m].id = i => m <= k
                 IN  pts[k]
            ELSE stored[i]]

(* ------------------------------ state -------------------------------- *)

VARIABLES
    phase,          \* which call of the pure functions has returned
    text,           \* argument of normalize_text / split_into_chunks
    max_chunk_size, \* argument of split_into_chunks
    overlap,        \* argument of split_into_chunks
    normalized,     \* normalize_text(text)
    renormalized,   \* normalize_text(normalized)
    chunk_run,      \* chunks (and seeds) returned by split_into_chunks
    prompt,         \* argument of trim_prompt
    max_chars,      \* argument of trim_prompt
    trimmed,        \* trim_prompt(prompt, max_chars)
    pc,             \* per request: where process_document stands
    chatbot_id,     \* per request: its chatbot_id parameter
    filename,       \* per request: its filename parameter
    ocr_text,       \* per request: local `text` of process_document
    chunks,         \* per request: local `chunks` of process_document
    acc,            \* per request: local `embeddings` inside embed_texts
    embeddings,     \* per request: local `embeddings` of process_document
    trace,          \* per request: the steps run and the calls made, in order
    failed_stage,   \* per request: the stage whose exception ended it
    collections,    \* Qdrant: name -> [size, points: id -> point]
    history,        \* per collection: the requests whose upsert succeeded
    create_log      \* per name: for every create_collection call Qdrant
                    \* received, whether the collection existed already

pureVars == <<phase, text, max_chunk_size, overlap, normalized, renormalized,
              chunk_run, prompt, max_chars, trimmed>>

ingestVars == <<pc, chatbot_id, filename, ocr_text, chunks, acc, embeddings,
                trace, failed_stage, collections, history, create_log>>

vars == <<pureVars, ingestVars>>

NoRun == [chunks |-> <<>>, seeds |-> <<>>, seed |-> <<>>, current_chunk |-> <<>>]

\* no request has arrived and Qdrant is empty
IngestIdle ==
    /\ pc = [r \in Requests |-> "idle"]
    /\ chatbot_id = [r \in Requests |-> ""]
    /\ filename = [r \in Requests |-> ""]
    /\ ocr_text = [r \in Requests |-> <<>>]
    /\ chunks = [r \in Requests |-> <<>>]
    /\ acc = [r \in Requests |-> <<>>]
    /\ embeddings = [r \in Requests |-> <<>>]
    /\ trace = [r \in Requests |-> <<>>]
    /\ failed_stage = [r \in Requests |-> "none"]
    /\ collections = <<>>
    /\ history = [n \in CollectionNames |-> <<>>]
    /\ create_log = [n \in CollectionNames |-> <<>>]

\* no pure function is being exercised on its own
PureIdle ==
    /\ phase = "idle"
    /\ text = <<>> /\ max_chunk_size = 0 /\ overlap = 0
    /\ normalized = <<>> /\ renormalized = <<>>
    /\ chunk_run = NoRun
    /\ prompt = <<>> /\ max_chars = 0 /\ trimmed = <<>>

(* ----------------------- normalize_text alone ------------------------ *)

InitNormalize ==
    /\ IngestIdle
    /\ phase = "input"
    /\ text \in StringsOver(NormAlphabet, MaxTextLen)
    /\ max_chunk_size = 0 /\ overlap = 0
    /\ normalized = <<>> /\ renormalized = <<>>
    /\ chunk_run = NoRun
    /\ prompt = <<>> /\ max_chars = 0 /\ trimmed = <<>>

Normalize ==
    /\ phase = "input"
    /\ normalized' = normalize_text(text)
    /\ phase' = "normalized"
    /\ UNCHANGED <<text, max_chunk_size, overlap, renormalized, chunk_run,
                   prompt, max_chars, trimmed>>
    /\ UNCHANGED ingestVars

NormalizeAgain ==
    /\ phase = "normalized"
    /\ renormalized' = normalize_text(normalized)
    /\ phase' = "renormalized"
    /\ UNCHANGED <<text, max_chunk_size, overlap, normalized, chunk_run,
                   prompt, max_chars, trimmed>>
    /\ UNCHANGED ingestVars

NextNormalize == Normalize \/ NormalizeAgain

SpecNormalize == InitNormalize /\ [][NextNormalize]_vars

(* ---------------------- split_into_chunks alone ---------------------- *)

InitChunk ==
    /\ IngestIdle
    /\ phase = "input"
    /\ text \in StringsOver(ChunkAlphabet, MaxChunkTextLen)
    /\ max_chunk_size \in 1..MaxChunkSize
    /\ overlap \in 0..MaxOverlap
    /\ normalized = <<>> /\ renormalized = <<>>
    /\ chunk_run = NoRun
    /\ prompt = <<>> /\ max_chars = 0 /\ trimmed = <<>>

Chunk ==
    /\ phase = "input"
    /\ chunk_run' = ChunkRun(text, max_chunk_size, overlap)
    /\ phase' = "chunked"
    /\ UNCHANGED <<text, max_chunk_size, overlap, normalized, renormalized,
                   prompt, max_chars, trimmed>>
    /\ UNCHANGED ingestVars

NextChunk == Chunk

SpecChunk == InitChunk /\ [][NextChunk]_vars

(* ------------------------- trim_prompt alone ------------------------- *)

InitTrim ==
    /\ IngestIdle
    /\ phase = "input"
    /\ prompt \in StringsOver(PromptAlphabet, MaxPromptLen)
    /\ max_chars \in 0..MaxChars
    /\ text = <<>> /\ max_chunk_size = 0 /\ overlap = 0
    /\ normalized = <<>> /\ renormalized = <<>>
    /\ chunk_run = NoRun
    /\ trimmed = <<>>

Trim ==
    /\ phase = "input"
    /\ trimmed' = trim_prompt(prompt, max_chars)
    /\ phase' = "trimmed"
    /\ UNCHANGED <<text, max_chunk_size, overlap, normalized, renormalized,
                   chunk_run, prompt, max_chars>>
    /\ UNCHANGED ingestVars

NextTrim == Trim

SpecTrim == InitTrim /\ [][NextTrim]_vars


(* ------------------- main.py: process_document ----------------------- *)

\* entries of a request's trace: a step that ran, a step that raised
Did(step) == [step |-> step, ok |-> TRUE]
Failed(step) == [step |-> step, ok |-> FALSE]

\* the stage of process_document a step belongs to
StageOf(step) ==
    CASE step = "ocr" -> "ocr"
      [] step = "chunk" -> "chunk"
      [] step = "embed" -> "embed"
      [] OTHER -> "store"

\* mutant of EmbedErrorOutcome: the error is swallowed and the vectors
\* collected so far are returned
EmbedErrorSwallowed(collected) ==
    [pc |-> "store", embeddings |-> collected, failed_stage |-> "none"]

\* embeddings.py line 25: raise_for_status() raises out of embed_texts and
\* out of process_document; the list collected so far is dropped
EmbedErrorOutcome(collected) ==
    [pc |-> "error", embeddings |-> <<>>, failed_stage |-> "embed"]

\* mutant of FirstVectorMissing: the size is taken as 0 for an empty list
FirstVectorDefaulted(embs) == FALSE

\* vector_store.py line 38: embeddings[0] raises IndexError on an empty list
FirstVectorMissing(embs) == embs = <<>>

\* POST /documents/process arrives (main.py lines 196-205)
Receive(r) ==
    /\ pc[r] = "idle"
    /\ \E id \in ChatbotIds, fname \in Filenames :
          /\ chatbot_id' = [chatbot_id EXCEPT ![r] = id]
          /\ filename' = [filename EXCEPT ![r] = fname]
    /\ pc' = [pc EXCEPT ![r] = "ocr"]
    /\ UNCHANGED <<ocr_text, chunks, acc, embeddings, trace,
                   failed_stage, collections, history, create_log>>
    /\ UNCHANGED pureVars

\* main.py lines 208-212: OCR of the stored object
Ocr(r) ==
    /\ pc[r] = "ocr"
    /\ \E pages \in Bucket(object_name(chatbot_id[r], filename[r])) :
          ocr_text' = [ocr_text EXCEPT ![r] = extract_text_from_pdf(pages)]
    /\ trace' = [trace EXCEPT ![r] = Append(@, Did("ocr"))]
    /\ pc' = [pc EXCEPT ![r] = "chunk"]
    /\ UNCHANGED <<chatbot_id, filename, chunks, acc, embeddings, failed_stage, collections, history, create_log>>
    /\ UNCHANGED pureVars

\* main.py line 215: chunks = split_into_chunks(text)
ChunkStage(r) ==
    /\ pc[r] = "chunk"
    /\ chunks' = [chunks EXCEPT ![r] = DefaultChunks[ocr_text[r]]]
    /\ trace' = [trace EXCEPT ![r] = Append(@, Did("chunk"))]
    /\ pc' = [pc EXCEPT ![r] = "embed"]
    /\ UNCHANGED <<chatbot_id, filename, ocr_text, acc, embeddings, failed_stage, collections, history, create_log>>
    /\ UNCHANGED pureVars

\* embeddings.py lines 15-26: one POST for the next text, answered
EmbedOne(r) ==
    /\ pc[r] = "embed"
    /\ Len(acc[r]) < Len(chunks[r])
    /\ acc' = [acc EXCEPT ![r] = Append(@, Embedding(chunks[r][Len(@) + 1]))]
    /\ trace' = [trace EXCEPT ![r] = Append(@, Did("embed"))]
    /\ UNCHANGED <<pc, chatbot_id, filename, ocr_text, chunks, embeddings,
                   failed_stage, collections, history, create_log>>
    /\ UNCHANGED pureVars

\* embeddings.py lines 15-25: one POST for the next text, failed
EmbedFails(r) ==
    /\ pc[r] = "embed"
    /\ Len(acc[r]) < Len(chunks[r])
    /\ LET out == EmbedErrorOutcome(acc[r])
       IN  /\ pc' = [pc EXCEPT ![r] = out.pc]
           /\ embeddings' = [embeddings EXCEPT ![r] = out.embeddings]
           /\ failed_stage' = [failed_stage EXCEPT ![r] = out.failed_stage]
    /\ trace' = [trace EXCEPT ![r] = Append(@, Failed("embed"))]
    /\ UNCHANGED <<chatbot_id, filename, ocr_text, chunks, acc, collections, history, create_log>>
    /\ UNCHANGED pureVars

\* embeddings.py line 28, main.py line 218: embed_texts returns its list
EmbedReturn(r) ==
    /\ pc[r] = "embed"
    /\ Len(acc[r]) = Len(chunks[r])
    /\ embeddings' = [embeddings EXCEPT ![r] = acc[r]]
    /\ pc' = [pc EXCEPT ![r] = "store"]
    /\ UNCHANGED <<chatbot_id, filename, ocr_text, chunks, acc, trace,
                   failed_stage, collections, history, create_log>>
    /\ UNCHANGED pureVars

\* vector_store.py lines 35-38: the arguments of ensure_collection
StoreStart(r) ==
    /\ pc[r] = "store"
    /\ IF FirstVectorMissing(embeddings[r])
       THEN /\ pc' = [pc EXCEPT ![r] = "error"]
            /\ failed_stage' = [failed_stage EXCEPT ![r] = "store"]
            /\ trace' = [trace EXCEPT ![r] = Append(@, Failed("store"))]
       ELSE /\ pc' = [pc EXCEPT ![r] = "get_collections"]
            /\ trace' = [trace EXCEPT ![r] = Append(@, Did("store"))]
            /\ UNCHANGED failed_stage
    /\ UNCHANGED <<chatbot_id, filename, ocr_text, chunks, acc, embeddings,
                   collections, history, create_log>>
    /\ UNCHANGED pureVars

\* vector_store.py lines 18-19: get_collections and the test on its answer
GetCollections(r) ==
    /\ pc[r] = "get_collections"
    /\ trace' = [trace EXCEPT ![r] = Append(@, Did("get_collections"))]
    /\ pc' = [pc EXCEPT ![r] =
                IF get_collection_name(chatbot_id[r]) \in DOMAIN collections
                THEN "upsert" ELSE "create"]
    /\ UNCHANGED <<chatbot_id, filename, ocr_text, chunks, acc, embeddings,
                   failed_stage, collections, history, create_log>>
    /\ UNCHANGED pureVars

\* vector_store.py lines 20-26: create_collection; Qdrant refuses a name it
\* already holds
CreateCollection(r) ==
    LET name == get_collection_name(chatbot_id[r])
        existed == name \in DOMAIN collections
    IN  /\ pc[r] = "create"
        /\ create_log' = [create_log EXCEPT ![name] = Append(@, existed)]
        /\ trace' = [trace EXCEPT ![r] =
                        Append(@, IF existed THEN Failed("create_collection")
                                  ELSE Did("create_collection"))]
        /\ IF existed
           THEN /\ pc' = [pc EXCEPT ![r] = "error"]
                /\ failed_stage' = [failed_stage EXCEPT ![r] = "store"]
                /\ UNCHANGED collections
           ELSE /\ pc' = [pc EXCEPT ![r] = "upsert"]
                /\ collections' =
                      [n \in (DOMAIN collections) \cup {name} |->
                          IF n = name
                          THEN [size |-> Len(embeddings[r][1]), points |-> <<>>]
                          ELSE collections[n]]
                /\ UNCHANGED failed_stage
        /\ UNCHANGED <<chatbot_id, filename, ocr_text, chunks, acc,
                       embeddings, history>>
        /\ UNCHANGED pureVars

\* vector_store.py lines 40-54: build the points and upsert them
Upsert(r) ==
    LET name == get_collection_name(chatbot_id[r])
        points == BuildPoints(chatbot_id[r], embeddings[r], chunks[r],
                              filename[r])
    IN  /\ pc[r] = "upsert"
        /\ name \in DOMAIN collections
        /\ collections' = [collections EXCEPT ![name].points =
                              Upserted(@, points)]
        /\ history' = [history EXCEPT ![name] = Append(@, r)]
        /\ trace' = [trace EXCEPT ![r] = Append(@, Did("upsert"))]
        /\ pc' = [pc EXCEPT ![r] = "done"]
        /\ UNCHANGED <<chatbot_id, filename, ocr_text, chunks, acc,
                       embeddings, failed_stage, create_log>>
        /\ UNCHANGED pureVars

\* a call to MinIO or Qdrant raises (no try/except anywhere on the path):
\* the exception leaves process_document
CallFails(r) ==
    /\ pc[r] \in {"ocr", "get_collections", "create", "upsert"}
    /\ LET step == IF pc[r] = "create" THEN "create_collection" ELSE pc[r]
       IN  /\ trace' = [trace EXCEPT ![r] = Append(@, Failed(step))]
           /\ failed_stage' = [failed_stage EXCEPT ![r] = StageOf(step)]
    /\ pc' = [pc EXCEPT ![r] = "error"]
    /\ UNCHANGED <<chatbot_id, filename, ocr_text, chunks, acc, embeddings,
                   collections, history, create_log>>
    /\ UNCHANGED pureVars

InitIngest == PureIdle /\ IngestIdle

NextIngest ==
    \E r \in Requests :
        \/ Receive(r)
        \/ Ocr(r)
        \/ ChunkStage(r)
        \/ EmbedOne(r)
        \/ EmbedFails(r)
        \/ EmbedReturn(r)
        \/ StoreStart(r)
        \/ GetCollections(r)
        \/ CreateCollection(r)
        \/ Upsert(r)
        \/ CallFails(r)

SpecIngest == InitIngest /\ [][NextIngest]_vars

(* ---------------------- claims: normalize_text ----------------------- *)

\* s holds n consecutive characters of `class`
HasRun(s, class, n) ==
    \E i \in 1..(Len(s) - n + 1) : \A j \in i..(i + n - 1) : s[j] \in class

\* C5: the output of normalize_text holds no run of 3 or more newlines, no
\* run of 2 or more blanks (space, tab), no carriage return, and neither
\* starts nor ends with whitespace.
C5_NormalizedShape ==
    phase \in {"normalized", "renormalized"} =>
        /\ ~HasRun(normalized, {NL}, 3)
        /\ ~HasRun(normalized, {SP, TAB}, 2)
        /\ \A i \in 1..Len(normalized) : normalized[i] \notin {CR, TAB}
        /\ normalized # <<>> =>
              /\ ~IsSpace(normalized[1])
              /\ ~IsSpace(normalized[Len(normalized)])

\* a text with a carriage return that completes a run of three line ends,
\* and a text with a run of blanks, have been normalized to something
C5_Witness ==
    /\ phase = "normalized"
    /\ \E i \in 1..Len(text) : text[i] = CR
    /\ HasRun(ReplaceCR(text), {NL}, 3)
    /\ Len(normalized) >= 4

\* C6: normalize_text(normalize_text(x)) = normalize_text(x)
C6_Idempotent ==
    phase = "renormalized" => renormalized = normalized

\* the second call has returned for a text that the first call changed
\* in its middle
C6_Witness ==
    /\ phase = "renormalized"
    /\ HasRun(text, {SP, TAB}, 3)
    /\ Len(normalized) >= 3
    /\ Len(normalized) < Len(text)

(* ------------------------ claims: trim_prompt ------------------------ *)

LastChars(s, n) == SubSeq(s, Len(s) - n + 1, Len(s))

\* C4: trim_prompt(p, n) is the last n characters of p when len(p) > n (and
\* so has length n), and p itself when len(p) <= n, for every n >= 0.
C4_TrimKeepsLastN ==
    phase = "trimmed" =>
        IF Len(prompt) > max_chars
        THEN trimmed = LastChars(prompt, max_chars) /\ Len(trimmed) = max_chars
        ELSE trimmed = prompt

(* --------------------- claims: split_into_chunks --------------------- *)

IsPrefix(p, s) == Len(p) <= Len(s) /\ SubSeq(s, 1, Len(p)) = p

Contains(s, p) ==
    \E i \in 0..(Len(s) - Len(p)) : SubSeq(s, i + 1, i + Len(p)) = p

InputParagraphs == Paragraphs(normalize_text(text))

\* C1: every chunk is at most max_chunk_size long, except a chunk that
\* contains a paragraph which is itself longer than max_chunk_size.
C1_ChunkSizeBound ==
    phase = "chunked" =>
        \A i \in 1..Len(chunk_run.chunks) :
            \/ Len(chunk_run.chunks[i]) <= max_chunk_size
            \/ \E k \in 1..Len(InputParagraphs) :
                  /\ Len(InputParagraphs[k]) > max_chunk_size
                  /\ Contains(chunk_run.chunks[i], InputParagraphs[k])

\* C2 as stated: with 0 < overlap < len(chunk[i-1]), the first `overlap`
\* characters of chunk[i] are the last `overlap` characters of chunk[i-1].
C2_OverlapPrefixExact ==
    phase = "chunked" =>
        \A i \in 2..Len(chunk_run.chunks) :
            (overlap > 0 /\ overlap < Len(chunk_run.chunks[i - 1])) =>
                SubSeq(chunk_run.chunks[i], 1, overlap)
                    = LastChars(chunk_run.chunks[i - 1], overlap)

\* C2 amended: with 0 < overlap < len(chunk[i-1]), chunk[i] starts with the
\* last `overlap` characters of chunk[i-1] less their leading whitespace.
C2_OverlapPrefixStripped ==
    phase = "chunked" =>
        \A i \in 2..Len(chunk_run.chunks) :
            (overlap > 0 /\ overlap < Len(chunk_run.chunks[i - 1])) =>
                /\ IsPrefix(LStrip(LastChars(chunk_run.chunks[i - 1], overlap)),
                            chunk_run.chunks[i])
                /\ LStrip(LastChars(chunk_run.chunks[i - 1], overlap)) # <<>>

\* a second chunk seeded with a tail of the first that starts with whitespace
C2_Witness ==
    /\ phase = "chunked"
    /\ Len(chunk_run.chunks) >= 2
    /\ overlap > 0
    /\ overlap < Len(chunk_run.chunks[1])
    /\ IsSpace(LastChars(chunk_run.chunks[1], overlap)[1])
    /\ chunk_run.seeds[2] = LastChars(chunk_run.chunks[1], overlap)

\* the paragraphs a chunk adds: the chunk without the seed it started from
\* (as emitted, that is less its leading whitespace) and the separator
NovelParagraphs(chunk, seed) ==
    IF seed = <<>> THEN SplitParagraphs(chunk, 1)
    ELSE SplitParagraphs(chunk, Len(LStrip(seed)) + 3)

RECURSIVE NovelContent(_, _)
NovelContent(emitted, seeds) ==
    IF emitted = <<>> THEN <<>>
    ELSE NovelParagraphs(Head(emitted), Head(seeds))
            \o NovelContent(Tail(emitted), Tail(seeds))

\* C3: the chunks, each without the overlap it was seeded with, hold in
\* order exactly the trimmed non-empty paragraphs of the normalized input.
C3_ChunkCoverage ==
    phase = "chunked" =>
        /\ Len(chunk_run.seeds) = Len(chunk_run.chunks)
        /\ \A i \in 1..Len(chunk_run.chunks) :
              chunk_run.seeds[i] # <<>> =>
                  IsPrefix(LStrip(chunk_run.seeds[i]) \o <<NL, NL>>,
                           chunk_run.chunks[i])
        /\ NovelContent(chunk_run.chunks, chunk_run.seeds) = InputParagraphs

\* a first chunk of two different paragraphs, and a second chunk that is
\* seeded from it and adds the third paragraph
C3_Witness ==
    /\ phase = "chunked"
    /\ Len(chunk_run.chunks) = 2
    /\ chunk_run.seeds[2] # <<>>
    /\ Len(InputParagraphs) = 3
    /\ InputParagraphs[1] # InputParagraphs[2]

(* --------------------- claims: process_document --------------------- *)

StepRank(step) ==
    CASE step = "ocr" -> 1
      [] step = "chunk" -> 2
      [] step = "embed" -> 3
      [] step = "store" -> 4
      [] step = "get_collections" -> 5
      [] step = "create_collection" -> 6
      [] step = "upsert" -> 7

Steps(r, step) == {i \in 1..Len(trace[r]) : trace[r][i].step = step}

Ingested(r) ==
    \E n \in CollectionNames : \E k \in 1..Len(history[n]) : history[n][k] = r

\* C7: the stages of a request run in the order OCR, chunk, embed, store,
\* none twice; a step that raises is the request's last step and leaves it
\* in error; when it is an embedding call that raised, embed_texts has
\* returned nothing and the request has upserted nothing.
C7_FailFastInOrder ==
    \A r \in Requests :
        /\ \A i, j \in 1..Len(trace[r]) :
              i < j => StepRank(trace[r][i].step) <= StepRank(trace[r][j].step)
        /\ \A step \in {"ocr", "chunk", "store", "get_collections",
                        "create_collection", "upsert"} :
              Cardinality(Steps(r, step)) <= 1
        /\ Cardinality(Steps(r, "embed")) <= Len(chunks[r])
        /\ Steps(r, "store") # {} =>
              /\ Steps(r, "ocr") # {} /\ Steps(r, "chunk") # {}
              /\ Cardinality(Steps(r, "embed")) = Len(chunks[r])
              /\ Len(embeddings[r]) = Len(chunks[r])
        /\ \A i \in 1..Len(trace[r]) :
              ~trace[r][i].ok =>
                  /\ i = Len(trace[r])
                  /\ pc[r] = "error"
                  /\ failed_stage[r] = StageOf(trace[r][i].step)
                  /\ trace[r][i].step = "embed" =>
                        /\ embeddings[r] = <<>>
                        /\ ~Ingested(r)
        /\ pc[r] = "error" <=> failed_stage[r] # "none"
        /\ Ingested(r) <=> pc[r] = "done"

\* the second embedding call of a request raised, after a first one that
\* was answered, while the collection existed
C7_Witness ==
    \E r \in Requests :
        /\ pc[r] = "error"
        /\ failed_stage[r] = "embed"
        /\ Len(chunks[r]) = 2
        /\ Len(acc[r]) = 1
        /\ Cardinality(Steps(r, "embed")) = 2
        /\ get_collection_name(chatbot_id[r]) \in DOMAIN collections

\* C8: the points of a collection are those of ids 0 .. k-1 for every
\* ingestion of k chunks that succeeded, and the point of id i holds chunk
\* i (text, filename, vector) of the latest ingestion of more than i chunks.
C8_PointsAccumulate ==
    \A n \in CollectionNames :
        LET h == history[n]
        IN  IF n \notin DOMAIN collections THEN h = <<>>
            ELSE LET pts == collections[n].points
                 IN  /\ \A k \in 1..Len(h) : Len(chunks[h[k]]) >= 1
                     /\ DOMAIN pts =
                           UNION {0..(Len(chunks[h[k]]) - 1) : k \in 1..Len(h)}
                     /\ \A i \in DOMAIN pts :
                           LET latest == CHOOSE k \in 1..Len(h) :
                                            /\ Len(chunks[h[k]]) > i
                                            /\ \A m \in (k + 1)..Len(h) :
                                                  Len(chunks[h[m]]) <= i
                               r == h[latest]
                           IN  /\ pts[i].id = i
                               /\ pts[i].vector = embeddings[r][i + 1]
                               /\ pts[i].payload =
                                     [chatbot_id |-> chatbot_id[r],
                                      filename |-> filename[r],
                                      text |-> chunks[r][i + 1]]

\* a file of two chunks was ingested, then the same file name with one
\* chunk: point 0 is the new chunk, point 1 still the old second chunk
C8_Witness ==
    \E n \in DOMAIN collections :
        /\ Len(history[n]) = 2
        /\ Len(chunks[history[n][1]]) = 2
        /\ Len(chunks[history[n][2]]) = 1
        /\ filename[history[n][1]] = filename[history[n][2]]
        /\ collections[n].points[0].payload.text = chunks[history[n][2]][1]
        /\ collections[n].points[1].payload.text = chunks[history[n][1]][2]
        /\ chunks[history[n][2]][1] # chunks[history[n][1]][1]

\* C9: create_collection is never called for a name Qdrant already holds,
\* and at most once for any name, however the requests interleave.
C9_CreatedOnce ==
    \A n \in CollectionNames :
        /\ Len(create_log[n]) <= 1
        /\ \A i \in 1..Len(create_log[n]) : ~create_log[n][i]

\* C10: a request whose text gives no chunk makes no embedding call and
\* no call to Qdrant (get_collections, create_collection, upsert): it stops
\* at the arguments of ensure_collection, in error.
C10_EmptyChunksTouchNothing ==
    \A r \in Requests :
        (Steps(r, "chunk") # {} /\ chunks[r] = <<>>) =>
            /\ \A step \in {"embed", "get_collections", "create_collection",
                            "upsert"} : Steps(r, step) = {}
            /\ pc[r] \in {"embed", "store", "error"}
            /\ pc[r] = "error" =>
                  /\ failed_stage[r] = "store"
                  /\ trace[r][Len(trace[r])] = Failed("store")
            /\ ~Ingested(r)

\* a request with a blank page has ended in error at store_embeddings and
\* Qdrant holds nothing
C10_Witness ==
    \E r \in Requests :
        /\ pc[r] = "error"
        /\ failed_stage[r] = "store"
        /\ ocr_text[r] # <<>>
        /\ chunks[r] = <<>>
        /\ Steps(r, "chunk") # {}
        /\ collections = <<>>

=============================================================================
